---- MODULE Spec2Model ----
(***************************************************************************)
(* Model of scripts/render-template.py: the command-line driver that       *)
(* checks its arguments, decodes the variables JSON, loads and renders a   *)
(* template through the templating engine and prints the result.           *)
(*                                                                         *)
(* Strings are sequences of characters over small alphabets.  The standard *)
(* streams are open at start-up; standard output is a buffered text stream *)
(* whose transfers to the underlying sink can fail (full device, closed    *)
(* pipe), standard error is reliable.                                      *)
(***************************************************************************)
EXTENDS Integers, Sequences, FiniteSets, TLC

VARIABLES argv, pc, template_file, variables_json, variables, template_dir,
          template_name, template, output, buf, stdout, stderr, status,
          steps, fs, run, first, ioFailed

vars == <<argv, pc, template_file, variables_json, variables, template_dir,
          template_name, template, output, buf, stdout, stderr, status,
          steps, fs, run, first, ioFailed>>

(* ------------------------------ bounds --------------------------------- *)

MaxJsonLen == 3
MaxPathLen == 3
RecursionLimit == 2
MaxDigits == 2
BufSize == 2
MaxRuns == 2

(* ----------------------------- alphabets ------------------------------- *)

\* "n" stands for the literal null, "1" for a digit.
JsonChar == {"{", "}", "[", "]", "1", "n"}
PathChar == {"/", "t"}

SeqsUpTo(S, n) == UNION {[1..k -> S] : k \in 0..n}

JsonTexts == SeqsUpTo(JsonChar, MaxJsonLen)
Paths == SeqsUpTo(PathChar, MaxPathLen)

Prog == <<"t">>
Extra == <<>>

(* ------------------------------ json.loads ----------------------------- *)

NoExc == "none"

Val(k) == [exc |-> NoExc, kind |-> k, next |-> 0]
Raise(e) == [exc |-> e, kind |-> "none", next |-> 0]
Unset == [exc |-> "unset", kind |-> "none", next |-> 0]

RECURSIVE CountDigits(_, _)
CountDigits(s, i) ==
  IF i <= Len(s) /\ s[i] = "1" THEN 1 + CountDigits(s, i + 1) ELSE 0

\* The decoder's descent over the text from position i; rl is the nesting
\* depth beyond which the interpreter raises RecursionError, md the number
\* of digits beyond which the integer conversion raises ValueError.
RECURSIVE ParseValue(_, _, _, _, _)
ParseValue(s, i, depth, rl, md) ==
  IF i > Len(s) THEN Raise("JSONDecodeError")
  ELSE IF s[i] = "n" THEN [Val("null") EXCEPT !.next = i + 1]
  ELSE IF s[i] = "1" THEN
    LET n == CountDigits(s, i) IN
      IF n > md THEN Raise("ValueError")
      ELSE [Val("number") EXCEPT !.next = i + n]
  ELSE IF s[i] = "{" THEN
    IF i + 1 <= Len(s) /\ s[i + 1] = "}"
      THEN [Val("object") EXCEPT !.next = i + 2]
      ELSE Raise("JSONDecodeError")
  ELSE IF s[i] = "[" THEN
    IF depth + 1 > rl THEN Raise("RecursionError")
    ELSE IF i + 1 <= Len(s) /\ s[i + 1] = "]"
      THEN [Val("array") EXCEPT !.next = i + 2]
    ELSE LET r == ParseValue(s, i + 1, depth + 1, rl, md) IN
      IF r.exc # NoExc THEN r
      ELSE IF r.next <= Len(s) /\ s[r.next] = "]"
        THEN [Val("array") EXCEPT !.next = r.next + 1]
        ELSE Raise("JSONDecodeError")
  ELSE Raise("JSONDecodeError")

Decode(s, rl, md) ==
  LET r == ParseValue(s, 1, 0, rl, md) IN
    IF r.exc # NoExc THEN r
    ELSE IF r.next # Len(s) + 1 THEN Raise("JSONDecodeError")
    ELSE [r EXCEPT !.next = 0]

json_loads(s) == Decode(s, RecursionLimit, MaxDigits)

\* except json.JSONDecodeError
CaughtByJsonHandler(e) == e = "JSONDecodeError"

(* --------------------------- os.path helpers --------------------------- *)

RECURSIVE LastSlash(_, _)
LastSlash(p, i) ==
  IF i = 0 THEN 0 ELSE IF p[i] = "/" THEN i ELSE LastSlash(p, i - 1)

AllSlashes(p) == \A i \in 1..Len(p) : p[i] = "/"

RECURSIVE RStripSlash(_)
RStripSlash(p) ==
  IF Len(p) > 0 /\ p[Len(p)] = "/" THEN RStripSlash(SubSeq(p, 1, Len(p) - 1))
  ELSE p

dirname(p) ==
  LET head == SubSeq(p, 1, LastSlash(p, Len(p))) IN
    IF Len(head) > 0 /\ ~AllSlashes(head) THEN RStripSlash(head) ELSE head

basename(p) == SubSeq(p, LastSlash(p, Len(p)) + 1, Len(p))

join(d, n) ==
  IF Len(d) = 0 THEN n
  ELSE IF d[Len(d)] = "/" THEN d \o n
  ELSE d \o <<"/">> \o n

RECURSIVE Collapse(_)
Collapse(p) ==
  IF Len(p) < 2 THEN p
  ELSE IF p[1] = "/" /\ p[2] = "/" THEN Collapse(Tail(p))
  ELSE <<p[1]>> \o Collapse(Tail(p))

(* ------------------------- the templating engine ----------------------- *)

\* Template bodies: "a", "b" literal characters, "S" a literal lone
\* surrogate, "V" a reference to an attribute of an unbound name, "B" an
\* unterminated block tag.
Files ==
  [p \in {<<"t">>, <<"t", "t">>, <<"/", "t">>, <<"t", "/", "t">>,
          <<"/", "t", "t">>, <<"t", "t", "t">>} |->
     CASE p = <<"t">> -> <<"a", "b">>
       [] p = <<"t", "t">> -> <<"a">>
       [] p = <<"/", "t">> -> <<"a", "B">>
       [] p = <<"t", "/", "t">> -> <<"a", "V">>
       [] p = <<"/", "t", "t">> -> <<"a", "S">>
       [] p = <<"t", "t", "t">> -> <<"a", "b", "a">>]

Has(s, c) == \E i \in 1..Len(s) : s[i] = c

Str(v) == [exc |-> NoExc, val |-> v]
Exc(e) == [exc |-> e, val |-> <<>>]
NoStr == [exc |-> "unset", val |-> <<>>]

get_template(files, dir, name) ==
  LET path == Collapse(join(dir, name)) IN
    IF Len(name) = 0 \/ path \notin DOMAIN files THEN Exc("TemplateNotFound")
    ELSE IF Has(files[path], "B") THEN Exc("TemplateSyntaxError")
    ELSE Str(files[path])

\* template.render(**variables): unpacking a non-mapping is a TypeError
\* raised by the call itself, an unbound name a NameError.
render(t, v) ==
  IF v.exc # NoExc THEN Exc("NameError")
  ELSE IF v.kind # "object" THEN Exc("TypeError")
  ELSE IF Has(t, "V") THEN Exc("UndefinedError")
  ELSE Str(t)

\* a handler that names the loader's exception only
CaughtByRenderHandler_NotFoundOnly(e) == e = "TemplateNotFound"

\* except Exception
CaughtByRenderHandler(e) ==
  e \in {"TemplateNotFound", "TemplateSyntaxError", "UndefinedError",
         "TypeError", "NameError", "UnicodeEncodeError", "OSError"}

(* ---------------------------- standard output -------------------------- *)

Encodable(s) == ~Has(s, "S")

IO(b, o, e) == [buf |-> b, out |-> o, exc |-> e]

\* One write to the buffered text stream: the text is encoded as a whole,
\* appended to the pending buffer, and the buffer is handed to the sink once
\* it exceeds its size; a failing transfer delivers a proper prefix and
\* drops the rest.
WriteOutcomes(b, o, s) ==
  IF ~Encodable(s) THEN {IO(b, o, "UnicodeEncodeError")}
  ELSE LET nb == b \o s IN
    IF Len(nb) <= BufSize THEN {IO(nb, o, NoExc)}
    ELSE {IO(<<>>, o \o nb, NoExc)}
         \cup {IO(<<>>, o \o SubSeq(nb, 1, k), "OSError") : k \in 0..(Len(nb) - 1)}

\* The flush of the pending buffer at interpreter exit.
FlushOutcomes(b, o) ==
  IF Len(b) = 0 THEN {IO(b, o, NoExc)}
  ELSE {IO(<<>>, o \o b, NoExc)}
       \cup {IO(<<>>, o \o SubSeq(b, 1, k), "OSError") : k \in 0..(Len(b) - 1)}

\* print(output, end="")
EmitEnd_None == <<>>

\* print(output): the text, then the end-of-line, as two writes.
EmitEnd == <<"\n">>

EmitOutcomes(b, o, s) ==
  UNION {IF w.exc # NoExc THEN {w} ELSE WriteOutcomes(w.buf, w.out, EmitEnd)
         : w \in WriteOutcomes(b, o, s)}

Msg(k, e) == [kind |-> k, detail |-> e]

(* ------------------------------ the driver ----------------------------- *)

Inputs ==
  {<<Prog>>}
  \cup {<<Prog, p>> : p \in Paths}
  \cup {<<Prog, p, j>> : p \in Paths, j \in JsonTexts}
  \cup {<<Prog, p, j, Extra>> : p \in Paths, j \in JsonTexts}

NoRun == [set |-> FALSE, stdout |-> <<>>, stderr |-> <<>>, status |-> 0,
          output |-> NoStr, io |-> FALSE]

Init ==
  /\ argv \in Inputs
  /\ pc = "start"
  /\ template_file = <<>>
  /\ variables_json = <<>>
  /\ variables = Unset
  /\ template_dir = <<>>
  /\ template_name = <<>>
  /\ template = NoStr
  /\ output = NoStr
  /\ buf = <<>>
  /\ stdout = <<>>
  /\ stderr = <<>>
  /\ status = 0
  /\ steps = <<>>
  /\ fs = Files
  /\ run = 1
  /\ first = NoRun
  /\ ioFailed = FALSE

\* the check written against the number of arguments instead of len(sys.argv)
ArgCheckFails_OffByOne(a) == Len(a) < 2

\* if len(sys.argv) < 3
ArgCheckFails(a) == Len(a) < 3

\* a handler that reports the error and forgets sys.exit(1)
ParseNext_FallThrough(r) == "setup"

\* where control goes after the try/except around json.loads: the handler
\* ends in sys.exit(1), an exception it does not catch ends the process too
ParseNext(r) == IF r.exc # NoExc THEN "finalize" ELSE "setup"

\* what the guarded block prints: the string render returned
EmitText(o) == o

ArgCheck ==
  /\ pc = "start"
  /\ steps' = Append(steps, "argcheck")
  /\ IF ArgCheckFails(argv)
       THEN /\ stderr' = Append(stderr, Msg("usage", NoExc))
            /\ status' = 1
            /\ pc' = "finalize"
       ELSE /\ pc' = "args"
            /\ UNCHANGED <<stderr, status>>
  /\ UNCHANGED <<argv, template_file, variables_json, variables, template_dir,
                 template_name, template, output, buf, stdout, fs, run,
                 first, ioFailed>>

ReadArgs ==
  /\ pc = "args"
  /\ IF Len(argv) >= 3
       THEN /\ template_file' = argv[2]
            /\ variables_json' = argv[3]
            /\ pc' = "parse"
            /\ UNCHANGED <<stderr, status>>
       ELSE /\ stderr' = Append(stderr, Msg("traceback", "IndexError"))
            /\ status' = 1
            /\ pc' = "finalize"
            /\ UNCHANGED <<template_file, variables_json>>
  /\ UNCHANGED <<argv, variables, template_dir, template_name, template,
                 output, buf, stdout, steps, fs, run, first, ioFailed>>

ParseJson ==
  /\ pc = "parse"
  /\ steps' = Append(steps, "parse")
  /\ LET r == json_loads(variables_json) IN
       /\ variables' = r
       /\ pc' = ParseNext(r)
       /\ IF r.exc = NoExc
            THEN UNCHANGED <<stderr, status>>
            ELSE /\ status' = 1
                 /\ stderr' = Append(stderr,
                      IF CaughtByJsonHandler(r.exc) THEN Msg("json", r.exc)
                      ELSE Msg("traceback", r.exc))
  /\ UNCHANGED <<argv, template_file, variables_json, template_dir,
                 template_name, template, output, buf, stdout, fs, run,
                 first, ioFailed>>

SetupEnv ==
  /\ pc = "setup"
  /\ template_dir' = dirname(template_file)
  /\ template_name' = basename(template_file)
  /\ pc' = "load"
  /\ UNCHANGED <<argv, template_file, variables_json, variables, template,
                 output, buf, stdout, stderr, status, steps, fs, run, first,
                 ioFailed>>

\* except Exception as e: print(..., file=sys.stderr); sys.exit(1); an
\* exception the handler does not catch ends the process with a traceback
Handle(e) ==
  /\ stderr' = Append(stderr, IF CaughtByRenderHandler(e) THEN Msg("render", e)
                              ELSE Msg("traceback", e))
  /\ status' = 1
  /\ pc' = "finalize"

\* a load that consumes the template file
Load_Consuming ==
  /\ pc = "load"
  /\ steps' = Append(steps, "load")
  /\ LET t == get_template(fs, template_dir, template_name)
         path == Collapse(join(template_dir, template_name))
     IN
       /\ template' = t
       /\ fs' = [q \in DOMAIN fs \ {path} |-> fs[q]]
       /\ IF t.exc = NoExc
            THEN pc' = "render" /\ UNCHANGED <<stderr, status>>
            ELSE Handle(t.exc)
  /\ UNCHANGED <<argv, template_file, variables_json, variables, template_dir,
                 template_name, output, buf, stdout, run, first, ioFailed>>

Load ==
  /\ pc = "load"
  /\ steps' = Append(steps, "load")
  /\ LET t == get_template(fs, template_dir, template_name) IN
       /\ template' = t
       /\ IF t.exc = NoExc
            THEN pc' = "render" /\ UNCHANGED <<stderr, status>>
            ELSE Handle(t.exc)
  /\ UNCHANGED <<argv, template_file, variables_json, variables, template_dir,
                 template_name, output, buf, stdout, fs, run, first,
                 ioFailed>>

Render ==
  /\ pc = "render"
  /\ steps' = Append(steps, "render")
  /\ LET o == render(template.val, variables) IN
       /\ output' = o
       /\ IF o.exc = NoExc
            THEN pc' = "print" /\ UNCHANGED <<stderr, status>>
            ELSE Handle(o.exc)
  /\ UNCHANGED <<argv, template_file, variables_json, variables, template_dir,
                 template_name, template, buf, stdout, fs, run, first,
                 ioFailed>>

WriteOut ==
  /\ pc = "print"
  /\ steps' = Append(steps, "write")
  /\ \E w \in EmitOutcomes(buf, stdout, EmitText(output.val)) :
       /\ buf' = w.buf
       /\ stdout' = w.out
       /\ ioFailed' = (ioFailed \/ w.exc = "OSError")
       /\ IF w.exc = NoExc
            THEN pc' = "finalize" /\ UNCHANGED <<stderr, status>>
            ELSE Handle(w.exc)
  /\ UNCHANGED <<argv, template_file, variables_json, variables, template_dir,
                 template_name, template, output, fs, run, first>>

\* interpreter exit: the standard streams are flushed; a failing flush is
\* reported on standard error and turns the exit status into 120
Finalize ==
  /\ pc = "finalize"
  /\ \E w \in FlushOutcomes(buf, stdout) :
       /\ buf' = w.buf
       /\ stdout' = w.out
       /\ ioFailed' = (ioFailed \/ w.exc = "OSError")
       /\ IF w.exc = NoExc
            THEN UNCHANGED <<stderr, status>>
            ELSE /\ stderr' = Append(stderr, Msg("ignored", w.exc))
                 /\ status' = 120
  /\ pc' = "done"
  /\ UNCHANGED <<argv, template_file, variables_json, variables, template_dir,
                 template_name, template, output, steps, fs, run, first>>

\* the same command line is run again as a fresh process
Rerun ==
  /\ pc = "done"
  /\ run < MaxRuns
  /\ run' = run + 1
  /\ first' = IF first.set THEN first
              ELSE [set |-> TRUE, stdout |-> stdout, stderr |-> stderr,
                    status |-> status, output |-> output, io |-> ioFailed]
  /\ pc' = "start"
  /\ template_file' = <<>>
  /\ variables_json' = <<>>
  /\ variables' = Unset
  /\ template_dir' = <<>>
  /\ template_name' = <<>>
  /\ template' = NoStr
  /\ output' = NoStr
  /\ buf' = <<>>
  /\ stdout' = <<>>
  /\ stderr' = <<>>
  /\ status' = 0
  /\ steps' = <<>>
  /\ ioFailed' = FALSE
  /\ UNCHANGED <<argv, fs>>

Next ==
  \/ ArgCheck
  \/ ReadArgs
  \/ ParseJson
  \/ SetupEnv
  \/ Load
  \/ Render
  \/ WriteOut
  \/ Finalize
  \/ Rerun

Spec == Init /\ [][Next]_vars

\* the process is single-threaded and every call returns or raises
FairSpec == Spec /\ WF_vars(Next)

TypeOK ==
  /\ pc \in {"start", "args", "parse", "setup", "load", "render", "print",
             "finalize", "done"}
  /\ status \in {0, 1, 120}
  /\ run \in 1..MaxRuns

(* ------------------------------- claims -------------------------------- *)

Done == pc = "done"

\* fewer than two arguments after the program name
FewArgs == Len(argv) - 1 < 2

Did(step) == \E i \in 1..Len(steps) : steps[i] = step

Times(step) == Cardinality({i \in 1..Len(steps) : steps[i] = step})

StepOrder == <<"argcheck", "parse", "load", "render", "write">>

IsPrefix(a, b) == Len(a) <= Len(b) /\ SubSeq(b, 1, Len(a)) = a

\* the text as the JSON grammar reads it, whatever the interpreter's limits
Grammar(s) == Decode(s, Len(s) + 1, Len(s) + 1)

FullOutput == EmitText(output.val) \o <<"\n">>

\* C1: with fewer than two arguments after the program name the run never
\* reaches the JSON parse or the template load, writes nothing to standard
\* output, and ends with the usage message alone on standard error and a
\* non-zero status.
C1_UsageError ==
  FewArgs =>
    /\ ~Did("parse") /\ ~Did("load")
    /\ stdout = <<>> /\ buf = <<>>
    /\ Done => (stderr = <<Msg("usage", NoExc)>> /\ status # 0)

C1_Witness ==
  Done /\ Len(argv) = 2 /\ stderr = <<Msg("usage", NoExc)>> /\ status = 1

\* C2: with at least two arguments, every failure of the decode of the
\* second one, of whatever kind, ends the run with the JSON-parse diagnostic
\* alone on standard error, a non-zero status, empty standard output, and
\* the template neither loaded nor rendered.
C2_AnyDecodeFailure ==
  (Done /\ ~FewArgs /\ variables.exc # NoExc) =>
    /\ stderr = <<Msg("json", variables.exc)>>
    /\ status # 0
    /\ stdout = <<>>
    /\ ~Did("load") /\ ~Did("render")

\* C3: once the argument check and the JSON parse have passed, a failure of
\* the template load or of the render is caught: its message is the one
\* diagnostic on standard error, the status is non-zero and standard output
\* is empty.
C3_RenderErrorCaught ==
  /\ (Done /\ Did("load") /\ template.exc # NoExc) =>
       (stderr = <<Msg("render", template.exc)>> /\ status # 0
        /\ stdout = <<>>)
  /\ (Done /\ Did("render") /\ output.exc # NoExc) =>
       (stderr = <<Msg("render", output.exc)>> /\ status # 0
        /\ stdout = <<>>)

C3_Witness ==
  /\ Done /\ variables.exc = NoExc /\ output.exc = "UndefinedError"
  /\ stderr = <<Msg("render", "UndefinedError")>> /\ status = 1

\* C4: no partial output: every terminal state has either the whole
\* rendered text on standard output or nothing on it, and a terminal state
\* with a non-zero status has nothing on it.
C4_NoPartialOutput ==
  Done =>
    /\ stdout = <<>> \/ (output.exc = NoExc /\ stdout = FullOutput)
    /\ status # 0 => stdout = <<>>

\* C5: the exit status is 0 exactly when the render succeeded and its text
\* is on standard output, each of the usage, JSON-parse and render errors
\* ends with status 1, and no run ends with another status.
C5_ExitStatus ==
  Done =>
    /\ status \in {0, 1}
    /\ status = 0 <=> (output.exc = NoExc /\ stdout = FullOutput)
    /\ (\E i \in 1..Len(stderr) : stderr[i].kind \in {"usage", "json", "render"})
         => status = 1

\* a run in which the render returned and no write of its text failed
Succeeded ==
  Done /\ output.exc = NoExc /\ Encodable(output.val) /\ ~ioFailed

\* C6: on every successful run standard output is exactly the string the
\* render returned followed by one newline, written by a single write step,
\* standard error is empty and the status is 0.
C6_SuccessOutput ==
  Succeeded =>
    /\ stdout = output.val \o <<"\n">>
    /\ Times("write") = 1
    /\ stderr = <<>>
    /\ status = 0

C6_Witness ==
  /\ Succeeded /\ output.val = <<"a", "b">>
  /\ stdout = <<"a", "b", "\n">> /\ status = 0

\* C7: a second argument that is valid JSON but not an object ends the run
\* as a render error (one render diagnostic, non-zero status, empty standard
\* output) or as a successful render, never through an uncaught failure.
C7_NonObjectJson ==
  (Done /\ ~FewArgs /\ Grammar(argv[3]).exc = NoExc
        /\ Grammar(argv[3]).kind # "object") =>
    \/ /\ Len(stderr) = 1 /\ stderr[1].kind = "render"
       /\ status # 0 /\ stdout = <<>>
    \/ /\ output.exc = NoExc /\ stderr = <<>> /\ status = 0

\* the steps taken so far are an initial part of the fixed order, and each
\* one after the first was taken only after the one before it succeeded
StepsInOrder ==
  /\ IsPrefix(steps, StepOrder)
  /\ Did("parse") => ~FewArgs
  /\ Did("load") => variables.exc = NoExc
  /\ Did("render") => template.exc = NoExc
  /\ Did("write") => output.exc = NoExc

\* C8: in every run the steps argument check, JSON parse, template load,
\* render, output write occur in that order, each at most once and only
\* after every earlier step succeeded, and every run that starts reaches a
\* terminal state.
C8_StepsOnceInOrder == [](StepsInOrder) /\ ((pc = "start") ~> Done)

C8_Witness == Done /\ steps = StepOrder /\ status = 0

FirstFailKind ==
  IF FewArgs THEN "usage"
  ELSE IF variables.exc # NoExc THEN "json"
  ELSE "render"

\* C10: a run that ends with a non-zero status has written exactly one
\* diagnostic, of the kind of the first failing step in the order usage,
\* JSON parse, render, and a run that ends with status 0 has written nothing
\* to standard error.
C10_OneDiagnostic ==
  Done =>
    /\ status # 0 =>
         (Len(stderr) = 1 /\ stderr[1].kind = FirstFailKind)
    /\ status = 0 => stderr = <<>>

====
